---- MODULE Spec2Model ----
(***************************************************************************)
(* A model of the icon tooling of JellyfinAndroid:                         *)
(*   process_icons.py   the square-and-pad normalizer, the background      *)
(*                      processor, the density fan-out and main            *)
(*   split_icons.py     the icon-sheet splitter, its fan-out and main      *)
(*   scripts/validate-gemini-config.py   the workflow validator            *)
(*                                                                         *)
(* Three specifications share the module.  SpecImage runs the two image    *)
(* functions (make_square_and_resize, split_and_save) on bounded images.   *)
(* Spec and FairSpec run the two main programs over a file system.         *)
(* SpecValid runs the validator's main over a list of workflow files.      *)
(***************************************************************************)
EXTENDS Integers, Sequences, FiniteSets, TLC

VARIABLES
    \* ---- image functions (SpecImage)
    job,        \* which function is applied: "normalize" or "split"
    src,        \* the image behind input_path of make_square_and_resize
    fsize,      \* final_size
    pass,       \* how many times the normalizer has run (0, 1, 2)
    res,        \* the locals and the saved image of the last normalizer run
    res1,       \* the same for the first run, kept when the second one runs
    sheet,      \* the image behind input_path of split_and_save
    isTransparent, \* the is_transparent argument
    sres,       \* the locals and the saved images of split_and_save
    \* ---- main programs (Spec, FairSpec)
    prog,       \* "process_icons" or "split_icons"
    pc,         \* the position of main
    present,    \* the input files that exist in the working directory
    content,    \* per input sheet column: TRUE when the column has content
    files,      \* the mipmap tree: <<density, name>> -> file or NoFile
    before,     \* files as it was when main started
    written,    \* the files saved by this run, in order
    warns,      \* the warnings printed by this run, in order
    fi,         \* index of the fan-out loop over the icon names
    \* ---- validator (SpecValid)
    wfs,        \* the discovered workflow files, sorted
    vpc,        \* the position of the validator's main
    idx,        \* loop index over workflow_files
    all_valid,  \* the all_valid flag
    visited,    \* the files handed to validate_workflow, in order
    status      \* the return value of main: -1 while it has not returned

imageVars == <<job, src, fsize, pass, res, res1, sheet, isTransparent, sres>>
progVars  == <<prog, pc, present, content, files, before, written, warns, fi>>
validVars == <<wfs, vpc, idx, all_valid, visited, status>>
vars      == <<imageVars, progVars, validVars>>

(***************************************************************************)
(* Bounds of the model.                                                    *)
(***************************************************************************)
MaxSide == 3        \* longest side of a source image of the normalizer
MaxArea == 6        \* most pixels in a source image of the normalizer
MaxS == 3           \* largest final_size tried
MaxSheetW == 6      \* widest sheet
MaxSheetH == 4      \* tallest sheet
MaxStale == 2       \* largest side of a file left in mipmap-xxxhdpi
MaxFiles == 3       \* most workflow files discovered
MaxSteps == 2       \* most steps in one workflow file

(***************************************************************************)
(* Program constants.                                                      *)
(***************************************************************************)
SafeNum == 65       \* 0.65 = SafeNum / SafeDen
SafeDen == 100
TopNum == 65        \* the top 65% of the sheet
TopDen == 100
Columns == 3
FinalSize == 432
SheetFinal == 432
BgFinal == 432
Mdpi == 108
Hdpi == 162
Xhdpi == 216
Xxhdpi == 324

Max(a, b) == IF a >= b THEN a ELSE b
Min(a, b) == IF a <= b THEN a ELSE b

(***************************************************************************)
(* Images.  An image is [w, h, mode, px] with px over (0..w-1) x (0..h-1). *)
(* A pixel is [rgb, a]: a colour name and an alpha class, "transparent"    *)
(* (alpha 0), "faint" (alpha 1..11, which a masked paste erases) or        *)
(* "opaque" (alpha 255).  Modes are "RGBA" and "RGB"; an RGB image has no  *)
(* alpha channel and all its pixels are held "opaque".  Alphas 12..254 are *)
(* not drawn: within one run they count as content like "opaque", and a    *)
(* masked paste lowers them (a * a / 255) without erasing them.            *)
(***************************************************************************)
Levels == {"transparent", "faint", "opaque"}
Modes == {"RGBA", "RGB"}

Pixel(rgb, a) == [rgb |-> rgb, a |-> a]
Zero == Pixel("black", "transparent")      \* (0, 0, 0, 0)

Coords(w, h) == (0 .. w - 1) \X (0 .. h - 1)

NoBox == [l |-> -1, t |-> -1, r |-> -1, b |-> -1]
Box(l, t, r, b) == [l |-> l, t |-> t, r |-> r, b |-> b]

Dims(img) == [w |-> img.w, h |-> img.h]
NoDims == [w |-> 0, h |-> 0]
NoImage == [w |-> 0, h |-> 0, mode |-> "RGBA", px |-> <<>>]

\* Image.new("RGBA", (w, h), (0, 0, 0, 0))
NewImage(w, h) ==
    [w |-> w, h |-> h, mode |-> "RGBA", px |-> [p \in Coords(w, h) |-> Zero]]

\* img.convert('RGBA') when img.mode != 'RGBA': every pixel gets alpha 255
ConvertRGBA(img) ==
    IF img.mode # "RGBA"
    THEN [img EXCEPT !.mode = "RGBA",
                     !.px = [p \in Coords(img.w, img.h) |->
                                Pixel(img.px[p].rgb, "opaque")]]
    ELSE img

\* img.crop((l, t, r, b)): the part of the box outside the image is zero
Crop(img, box) ==
    [w |-> box.r - box.l,
     h |-> box.b - box.t,
     mode |-> img.mode,
     px |-> [p \in Coords(box.r - box.l, box.b - box.t) |->
                IF <<p[1] + box.l, p[2] + box.t>> \in Coords(img.w, img.h)
                THEN img.px[<<p[1] + box.l, p[2] + box.t>>]
                ELSE IF img.mode = "RGBA" THEN Zero ELSE Pixel("black", "opaque")]]

\* the center crop to a square
CenterCrop(img) ==
    IF img.w # img.h
    THEN LET size == Min(img.w, img.h)
             left == (img.w - size) \div 2
             top  == (img.h - size) \div 2
         IN Crop(img, Box(left, top, left + size, top + size))
    ELSE img

SetMin(S) == CHOOSE x \in S : \A y \in S : x <= y
SetMax(S) == CHOOSE x \in S : \A y \in S : x >= y

\* what getbbox counts as content: a non-zero alpha when the image has an
\* alpha channel, a non-black pixel when it has none
Visible(pixel, mode) ==
    IF mode = "RGBA" THEN pixel.a # "transparent" ELSE pixel.rgb # "black"

\* img.getbbox(): the bounding box of the content, or None
GetBBox(img) ==
    LET vis == {p \in Coords(img.w, img.h) : Visible(img.px[p], img.mode)}
    IN IF vis = {}
       THEN NoBox
       ELSE Box(SetMin({p[1] : p \in vis}), SetMin({p[2] : p \in vis}),
                SetMax({p[1] : p \in vis}) + 1, SetMax({p[2] : p \in vis}) + 1)

\* the trim: bbox = img.getbbox(); if bbox: img = img.crop(bbox)
Trim(img) == IF GetBBox(img) # NoBox THEN Crop(img, GetBBox(img)) ELSE img

CanvasSizeCeil(icon_size) == (SafeDen * icon_size + SafeNum - 1) \div SafeNum

\* int(icon_size / 0.65): the quotient truncated.  The double quotient and
\* the exact one have the same integer part for every size up to 2,000,000.
CanvasSize(icon_size) == (SafeDen * icon_size) \div SafeNum

PasteLevelFading(level) ==
    IF level = "opaque" THEN "faint" ELSE "transparent"

\* What canvas.paste(img, pos, img) leaves of a pixel's alpha on a
\* transparent canvas: the mask blends the alpha channel too, alpha a
\* becomes a * a / 255, which is 0 for a <= 11 and 255 for a = 255.
PasteLevel(level) ==
    IF level = "opaque" THEN "opaque" ELSE "transparent"

\* canvas.paste(img, (x, y), img)
Paste(canvas, img, x, y) ==
    [canvas EXCEPT !.px =
        [p \in Coords(canvas.w, canvas.h) |->
            IF /\ x <= p[1] /\ p[1] < x + img.w
               /\ y <= p[2] /\ p[2] < y + img.h
               /\ PasteLevel(img.px[<<p[1] - x, p[2] - y>>].a) # "transparent"
            THEN Pixel(img.px[<<p[1] - x, p[2] - y>>].rgb,
                       PasteLevel(img.px[<<p[1] - x, p[2] - y>>].a))
            ELSE canvas.px[p]]]

ResizeNoUpscale(img, w, h) ==
    LET tw == Min(w, img.w)
        th == Min(h, img.h)
    IN [w |-> tw, h |-> th, mode |-> img.mode,
        px |-> [p \in Coords(tw, th) |->
                  img.px[<<((2 * p[1] + 1) * img.w) \div (2 * tw),
                           ((2 * p[2] + 1) * img.h) \div (2 * th)>>]]]

\* img.resize((w, h), LANCZOS), as geometry: the result is w x h and each of
\* its pixels is taken from the source pixel under its center.  When the
\* size does not change the mapping is the identity (resize returns a copy).
Resize(img, w, h) ==
    [w |-> w, h |-> h, mode |-> img.mode,
     px |-> [p \in Coords(w, h) |->
                img.px[<<((2 * p[1] + 1) * img.w) \div (2 * w),
                         ((2 * p[2] + 1) * img.h) \div (2 * h)>>]]]

\* make_square_and_resize: its locals and the image it saves
MakeSquareAndResize(img, final_size) ==
    LET square   == CenterCrop(ConvertRGBA(img))
        bbox     == GetBBox(square)
        trimmed  == Trim(square)
        icon_size == Max(trimmed.w, trimmed.h)
        canvas_size == CanvasSize(icon_size)
        paste_x  == (canvas_size - trimmed.w) \div 2
        paste_y  == (canvas_size - trimmed.h) \div 2
        canvas   == Paste(NewImage(canvas_size, canvas_size), trimmed, paste_x, paste_y)
    IN [square |-> Dims(square),
        bbox |-> bbox,
        w |-> trimmed.w,
        h |-> trimmed.h,
        canvas_size |-> canvas_size,
        canvas |-> Dims(canvas),
        paste_x |-> paste_x,
        paste_y |-> paste_y,
        final |-> Resize(canvas, final_size, final_size)]

NoRes == [square |-> NoDims, bbox |-> NoBox, w |-> 0, h |-> 0,
          canvas_size |-> 0, canvas |-> NoDims,
          paste_x |-> 0, paste_y |-> 0, final |-> NoImage]

(***************************************************************************)
(* The sheet splitter.                                                     *)
(***************************************************************************)
ColWidthCeil(width) == (width + Columns - 1) \div Columns

\* col_width = width // 3
ColWidth(width) == width \div Columns

\* crop_height = int(height * 0.65): the product truncated.  The double
\* product and the exact one have the same integer part up to 2,000,000.
CropHeight(height) == (TopNum * height) \div TopDen

ColumnRectWide(col_index, col_width, crop_height) ==
    Box(col_index * col_width, 0, (col_index + 1) * col_width + 1, crop_height)

\* left = col_index * col_width; right = (col_index + 1) * col_width;
\* the box of img.crop((left, 0, right, crop_height))
ColumnRect(col_index, col_width, crop_height) ==
    Box(col_index * col_width, 0, (col_index + 1) * col_width, crop_height)

\* final_size = int(size / 0.65)
SheetCanvasSize(size) == (SafeDen * size) \div SafeNum

NoIcon == [rect |-> NoBox, col |-> NoDims, bbox |-> NoBox, saved |-> FALSE,
           w |-> 0, h |-> 0, final_size |-> 0, paste_x |-> 0, paste_y |-> 0,
           out |-> NoDims]

\* extract_icon(col_index, name): its locals and the size of the image it
\* saves; saved is FALSE when it returns on "No content found"
ExtractIcon(img, col_index, col_width, crop_height) ==
    LET rect     == ColumnRect(col_index, col_width, crop_height)
        icon_col == Crop(img, rect)
        bbox     == GetBBox(icon_col)
        icon_img == Crop(icon_col, bbox)
        size     == Max(icon_img.w, icon_img.h)
        final_size == SheetCanvasSize(size)
    IN IF bbox = NoBox
       THEN [NoIcon EXCEPT !.rect = rect, !.col = Dims(icon_col)]
       ELSE [rect |-> rect, col |-> Dims(icon_col), bbox |-> bbox, saved |-> TRUE,
             w |-> icon_img.w, h |-> icon_img.h, final_size |-> final_size,
             paste_x |-> (final_size - icon_img.w) \div 2,
             paste_y |-> (final_size - icon_img.h) \div 2,
             out |-> [w |-> SheetFinal, h |-> SheetFinal]]

\* the channel values of a colour name and of an alpha class
RGBTuple(rgb) ==
    CASE rgb = "black" -> <<0, 0, 0>>
      [] rgb = "white" -> <<255, 255, 255>>
      [] OTHER         -> <<0, 164, 220>>
AlphaValue(a) ==
    CASE a = "transparent" -> 0
      [] a = "opaque"      -> 255
      [] OTHER             -> 8

\* img.getpixel((x, y)): a 4-tuple for RGBA, a 3-tuple for RGB
GetPixel(img, x, y) ==
    IF img.mode = "RGBA"
    THEN RGBTuple(img.px[<<x, y>>].rgb) \o <<AlphaValue(img.px[<<x, y>>].a)>>
    ELSE RGBTuple(img.px[<<x, y>>].rgb)

SampleXLeft(col_width) == col_width \div 2

\* bg_col_center_x = col_width + (col_width // 2)
SampleX(col_width) == col_width + (col_width \div 2)

\* bg_col_center_y = crop_height // 2
SampleY(crop_height) == crop_height \div 2

\* bg_color[:3] if len(bg_color) > 3 else bg_color
FillColour(bg_color) == IF Len(bg_color) > 3 THEN SubSeq(bg_color, 1, 3) ELSE bg_color

NoBg == [x |-> -1, y |-> -1, bg_color |-> <<>>,
         out |-> [w |-> 0, h |-> 0, mode |-> "RGB", fill |-> <<>>]]

\* the else branch of split_and_save: the solid background
ExtractBackground(img, col_width, crop_height) ==
    LET x == SampleX(col_width)
        y == SampleY(crop_height)
        bg_color == GetPixel(img, x, y)
    IN [x |-> x, y |-> y, bg_color |-> bg_color,
        out |-> [w |-> BgFinal, h |-> BgFinal, mode |-> "RGB",
                 fill |-> FillColour(bg_color)]]

\* split_and_save(input_path, output_dir, is_transparent)
SplitAndSave(img, is_transparent) ==
    LET col_width   == ColWidth(img.w)
        crop_height == CropHeight(img.h)
    IN [col_width |-> col_width,
        crop_height |-> crop_height,
        fg   |-> IF is_transparent
                 THEN ExtractIcon(img, 0, col_width, crop_height) ELSE NoIcon,
        mono |-> IF is_transparent
                 THEN ExtractIcon(img, 2, col_width, crop_height) ELSE NoIcon,
        bg   |-> IF is_transparent
                 THEN NoBg ELSE ExtractBackground(img, col_width, crop_height)]

NoSres == [col_width |-> 0, crop_height |-> 0, fg |-> NoIcon, mono |-> NoIcon,
           bg |-> NoBg]

(***************************************************************************)
(* SpecImage: the two image functions applied to bounded inputs.           *)
(***************************************************************************)
\* the images make_square_and_resize is given: any alpha pattern for an
\* RGBA file, any black/blue pattern for an RGB file
Sources ==
    UNION {
      LET w == d[1]
          h == d[2]
      IN
      {[w |-> w, h |-> h, mode |-> "RGBA", px |-> f] :
          f \in [Coords(w, h) -> {Pixel("blue", a) : a \in Levels}]}
      \cup
      {[w |-> w, h |-> h, mode |-> "RGB", px |-> f] :
          f \in [Coords(w, h) -> {Pixel("black", "opaque"), Pixel("blue", "opaque")}]}
      : d \in {q \in (1 .. MaxSide) \X (1 .. MaxSide) : q[1] * q[2] <= MaxArea}}

Rects(w, h) ==
    {Box(l, t, r, b) : <<l, t, r, b>> \in
        {q \in (0 .. w) \X (0 .. h) \X (0 .. w) \X (0 .. h) : q[1] < q[3] /\ q[2] < q[4]}}

Papers(mode) ==
    IF mode = "RGBA"
    THEN {Zero, Pixel("white", "opaque")}
    ELSE {Pixel("black", "opaque"), Pixel("white", "opaque")}

\* a sheet: blue ink in one rectangle (or none) on paper of one colour
SheetImage(w, h, mode, paper, ink) ==
    [w |-> w, h |-> h, mode |-> mode,
     px |-> [p \in Coords(w, h) |->
                IF /\ ink.l <= p[1] /\ p[1] < ink.r
                   /\ ink.t <= p[2] /\ p[2] < ink.b
                THEN Pixel("blue", "opaque") ELSE paper]]

Sheets ==
    UNION {
      {SheetImage(d[1], d[2], m, paper, ink) :
          paper \in Papers(m), ink \in Rects(d[1], d[2]) \cup {NoBox}}
      : <<d, m>> \in ((1 .. MaxSheetW) \X (1 .. MaxSheetH)) \X Modes}

NoProg ==
    /\ prog = "none" /\ pc = "idle" /\ present = {} /\ content = <<>>
    /\ files = <<>> /\ before = <<>> /\ written = <<>> /\ warns = <<>> /\ fi = 0

NoValid ==
    /\ wfs = <<>> /\ vpc = "idle" /\ idx = 0 /\ all_valid = TRUE
    /\ visited = <<>> /\ status = -1

NoImageJob ==
    /\ job = "none" /\ src = NoImage /\ fsize = 0 /\ pass = 0
    /\ res = NoRes /\ res1 = NoRes /\ sheet = NoImage
    /\ isTransparent = FALSE /\ sres = NoSres

InitImage ==
    /\ \/ /\ job = "normalize"
          /\ src \in Sources
          /\ fsize \in 1 .. MaxS
          /\ sheet = NoImage
          /\ isTransparent = FALSE
       \/ /\ job = "split"
          /\ src = NoImage
          /\ fsize = 0
          /\ sheet \in Sheets
          /\ isTransparent \in BOOLEAN
    /\ pass = 0
    /\ res = NoRes
    /\ res1 = NoRes
    /\ sres = NoSres
    /\ NoProg
    /\ NoValid

\* make_square_and_resize(input_path, output_path, final_size)
Normalize ==
    /\ job = "normalize"
    /\ pass = 0
    /\ res' = MakeSquareAndResize(src, fsize)
    /\ pass' = 1
    /\ UNCHANGED <<job, src, fsize, res1, sheet, isTransparent, sres>>
    /\ UNCHANGED <<progVars, validVars>>

\* make_square_and_resize on the file the first call saved
NormalizeAgain ==
    /\ job = "normalize"
    /\ pass = 1
    /\ res1' = res
    /\ res' = MakeSquareAndResize(res.final, fsize)
    /\ pass' = 2
    /\ UNCHANGED <<job, src, fsize, sheet, isTransparent, sres>>
    /\ UNCHANGED <<progVars, validVars>>

\* split_and_save(input_path, output_dir, is_transparent)
Split ==
    /\ job = "split"
    /\ pass = 0
    /\ sres' = SplitAndSave(sheet, isTransparent)
    /\ pass' = 1
    /\ UNCHANGED <<job, src, fsize, res, res1, sheet, isTransparent>>
    /\ UNCHANGED <<progVars, validVars>>

NextImage == Normalize \/ NormalizeAgain \/ Split

SpecImage == InitImage /\ [][NextImage]_vars

(***************************************************************************)
(* The main programs over a file system (Spec, FairSpec).  A file of the   *)
(* mipmap tree is [w, h, origin, of]: its size, the function that saved    *)
(* it ("stale" for a file that was there before the run) and, for a file   *)
(* saved by a fan-out, the xxxhdpi file it was resized from.               *)
(***************************************************************************)
Foreground == "ic_launcher_foreground.png"
Background == "ic_launcher_background.png"
Monochrome == "ic_launcher_monochrome.png"

\* icon_files / icon_names, in the order of the loop
IconFiles == <<Foreground, Background, Monochrome>>

\* densities, in the order of the dict
Densities == <<"mdpi", "hdpi", "xhdpi", "xxhdpi">>
DensitySize(density) ==
    CASE density = "mdpi"   -> Mdpi
      [] density = "hdpi"   -> Hdpi
      [] density = "xhdpi"  -> Xhdpi
      [] density = "xxhdpi" -> Xxhdpi

Mipmap(density) == "mipmap-" \o density
XxxhdpiDir == Mipmap("xxxhdpi")
Dirs == {XxxhdpiDir} \cup {Mipmap(Densities[d]) : d \in 1 .. Len(Densities)}
Names == {IconFiles[i] : i \in 1 .. Len(IconFiles)}

NoOf == [w |-> 0, h |-> 0, origin |-> "none"]
NoFile == [w |-> 0, h |-> 0, origin |-> "absent", of |-> NoOf]
File(w, h, origin) == [w |-> w, h |-> h, origin |-> origin, of |-> NoOf]
Of(file) == [w |-> file.w, h |-> file.h, origin |-> file.origin]

Exists(fs, dir, name) == fs[<<dir, name>>] # NoFile

Save(wr, dir, name, file) == Append(wr, [dir |-> dir, name |-> name, file |-> file])
Put(fs, dir, name, file) == [fs EXCEPT ![<<dir, name>>] = file]

ResizedKeepAspect(source, size) ==
    [w |-> size, h |-> Max(1, (size * source.h) \div source.w),
     origin |-> "resize", of |-> Of(source)]

\* source_img.resize((size, size), LANCZOS) of an xxxhdpi file
Resized(source, size) ==
    [w |-> size, h |-> size, origin |-> "resize", of |-> Of(source)]

RECURSIVE FanOutSaves(_, _, _, _)
\* the inner loop over densities from index d: the files saved, in order
FanOutSaves(wr, source, name, d) ==
    IF d > Len(Densities)
    THEN wr
    ELSE FanOutSaves(
            Save(wr, Mipmap(Densities[d]), name, Resized(source, DensitySize(Densities[d]))),
            source, name, d + 1)

RECURSIVE FanOutPuts(_, _, _, _)
FanOutPuts(fs, source, name, d) ==
    IF d > Len(Densities)
    THEN fs
    ELSE FanOutPuts(
            Put(fs, Mipmap(Densities[d]), name, Resized(source, DensitySize(Densities[d]))),
            source, name, d + 1)

\* one iteration of the loop over the icon names, in either program
FanOutIteration(prefix) ==
    /\ fi <= Len(IconFiles)
    /\ LET name == IconFiles[fi]
       IN IF ~Exists(files, XxxhdpiDir, name)
          THEN /\ warns' = Append(warns, prefix \o name \o " not found, skipping")
               /\ UNCHANGED <<files, written>>
          ELSE /\ files' = FanOutPuts(files, files[<<XxxhdpiDir, name>>], name, 1)
               /\ written' = FanOutSaves(written, files[<<XxxhdpiDir, name>>], name, 1)
               /\ UNCHANGED warns
    /\ fi' = fi + 1
    /\ UNCHANGED <<prog, pc, present, content, before>>
    /\ UNCHANGED <<imageVars, validVars>>

ProcInputs == {"foreground.png", "background.png", "mono.png"}
TransparentSheet == "icons 3 transparent.png"
WhiteSheet == "icons 3 white background.png"
SplitInputs == {TransparentSheet, WhiteSheet}

NotFound(input) == "[WARN] " \o input \o " not found!"
ProcSkipped == "[WARN] "
SplitSkipped == "Warning: "
NoContent(name) == "Warning: No content found for " \o name

\* the files that may lie in the mipmap tree before a run
StaleFiles == {File(d[1], d[2], "stale") : d \in (1 .. MaxStale) \X (1 .. MaxStale)}

InitProg ==
    /\ prog \in {"process_icons", "split_icons"}
    /\ \/ /\ prog = "process_icons"
          /\ pc = "foreground"
          /\ present \in SUBSET ProcInputs
          /\ content = [c \in {0, 2} |-> TRUE]
       \/ /\ prog = "split_icons"
          /\ pc = "transparent"
          /\ present \in SUBSET SplitInputs
          /\ content \in [{0, 2} -> BOOLEAN]
    /\ \E top \in [Names -> StaleFiles \cup {NoFile}], low \in BOOLEAN :
          files = [k \in Dirs \X Names |->
                      IF k[1] = XxxhdpiDir THEN top[k[2]]
                      ELSE IF low THEN File(1, 1, "stale") ELSE NoFile]
    /\ before = files
    /\ written = <<>>
    /\ warns = <<>>
    /\ fi = 1
    /\ NoImageJob
    /\ NoValid

\* one of the three stages of process_icons main: if os.path.exists(input)
\* the function saves its 432 x 432 image, else the warning is printed
ProcStage(at, input, name, function, next) ==
    /\ prog = "process_icons"
    /\ pc = at
    /\ IF input \in present
       THEN /\ files' = Put(files, XxxhdpiDir, name, File(FinalSize, FinalSize, function))
            /\ written' = Save(written, XxxhdpiDir, name, File(FinalSize, FinalSize, function))
            /\ UNCHANGED warns
       ELSE /\ warns' = Append(warns, NotFound(input))
            /\ UNCHANGED <<files, written>>
    /\ pc' = next
    /\ UNCHANGED <<prog, present, content, before, fi>>
    /\ UNCHANGED <<imageVars, validVars>>

ProcForegroundStrict ==
    /\ prog = "process_icons"
    /\ pc = "foreground"
    /\ pc' = IF "foreground.png" \in present THEN "background" ELSE "crashed"
    /\ files' = IF "foreground.png" \in present
                THEN Put(files, XxxhdpiDir, Foreground,
                         File(FinalSize, FinalSize, "make_square_and_resize"))
                ELSE files
    /\ written' = IF "foreground.png" \in present
                  THEN Save(written, XxxhdpiDir, Foreground,
                            File(FinalSize, FinalSize, "make_square_and_resize"))
                  ELSE written
    /\ UNCHANGED <<prog, present, content, before, fi, warns>>
    /\ UNCHANGED <<imageVars, validVars>>

\* 1. Processing foreground...
ProcForeground ==
    ProcStage("foreground", "foreground.png", Foreground,
              "make_square_and_resize", "background")

\* 2. Processing background...
ProcBackground ==
    ProcStage("background", "background.png", Background,
              "process_background", "monochrome")

\* 3. Processing monochrome...
ProcMonochrome ==
    ProcStage("monochrome", "mono.png", Monochrome,
              "make_square_and_resize", "fanout")

\* 4. create_all_densities: one iteration of its loop
ProcFanOut ==
    /\ prog = "process_icons"
    /\ pc = "fanout"
    /\ FanOutIteration(ProcSkipped)

\* the loop is over: "Done! Icons created successfully."
ProcDone ==
    /\ prog = "process_icons"
    /\ pc = "fanout"
    /\ fi > Len(IconFiles)
    /\ pc' = "done"
    /\ UNCHANGED <<prog, present, content, files, before, written, warns, fi>>
    /\ UNCHANGED <<imageVars, validVars>>

\* what extract_icon(col_index, name) does to the tree: the 432 x 432 icon
\* is saved when the column has content, else the warning is printed
ExtractedFiles(fs) ==
    LET one == IF content[0]
               THEN Put(fs, XxxhdpiDir, Foreground, File(SheetFinal, SheetFinal, "extract_icon"))
               ELSE fs
    IN IF content[2]
       THEN Put(one, XxxhdpiDir, Monochrome, File(SheetFinal, SheetFinal, "extract_icon"))
       ELSE one
ExtractedSaves(wr) ==
    LET one == IF content[0]
               THEN Save(wr, XxxhdpiDir, Foreground, File(SheetFinal, SheetFinal, "extract_icon"))
               ELSE wr
    IN IF content[2]
       THEN Save(one, XxxhdpiDir, Monochrome, File(SheetFinal, SheetFinal, "extract_icon"))
       ELSE one
ExtractedWarns(ws) ==
    LET one == IF content[0] THEN ws ELSE Append(ws, NoContent(Foreground))
    IN IF content[2] THEN one ELSE Append(one, NoContent(Monochrome))

\* split_and_save("icons 3 transparent.png", output_dir, is_transparent=True):
\* Image.open raises FileNotFoundError when the sheet is missing, and
\* nothing catches it
SplitTransparent ==
    /\ prog = "split_icons"
    /\ pc = "transparent"
    /\ IF TransparentSheet \in present
       THEN /\ files' = ExtractedFiles(files)
            /\ written' = ExtractedSaves(written)
            /\ warns' = ExtractedWarns(warns)
            /\ pc' = "white"
       ELSE /\ pc' = "crashed"
            /\ UNCHANGED <<files, written, warns>>
    /\ UNCHANGED <<prog, present, content, before, fi>>
    /\ UNCHANGED <<imageVars, validVars>>

\* split_and_save("icons 3 white background.png", output_dir, is_transparent=False)
SplitWhite ==
    /\ prog = "split_icons"
    /\ pc = "white"
    /\ IF WhiteSheet \in present
       THEN /\ files' = Put(files, XxxhdpiDir, Background, File(BgFinal, BgFinal, "solid"))
            /\ written' = Save(written, XxxhdpiDir, Background, File(BgFinal, BgFinal, "solid"))
            /\ pc' = "fanout"
       ELSE /\ pc' = "crashed"
            /\ UNCHANGED <<files, written>>
    /\ UNCHANGED <<prog, present, content, before, fi, warns>>
    /\ UNCHANGED <<imageVars, validVars>>

\* create_all_density_icons: one iteration of its loop
SplitFanOut ==
    /\ prog = "split_icons"
    /\ pc = "fanout"
    /\ FanOutIteration(SplitSkipped)

\* the loop is over: "Done! Icon files created in ..."
SplitFinish ==
    /\ prog = "split_icons"
    /\ pc = "fanout"
    /\ fi > Len(IconFiles)
    /\ pc' = "done"
    /\ UNCHANGED <<prog, present, content, files, before, written, warns, fi>>
    /\ UNCHANGED <<imageVars, validVars>>

NextProg ==
    \/ ProcForeground
    \/ ProcBackground
    \/ ProcMonochrome
    \/ ProcFanOut
    \/ ProcDone
    \/ SplitTransparent
    \/ SplitWhite
    \/ SplitFanOut
    \/ SplitFinish

Spec == InitProg /\ [][NextProg]_vars

\* main is sequential code: whenever a step is possible, one is taken
FairSpec == Spec /\ WF_vars(NextProg)

(***************************************************************************)
(* The validator (SpecValid).  What validate_workflow reads is             *)
(* [yaml, steps]: how the file loads ("unreadable": open fails; "error":   *)
(* yaml.safe_load raises YAMLError; "null": it returns None; "mapping": it *)
(* returns the workflow), and the steps of its jobs in the order of the    *)
(* two loops.  A step is "plain" (no settings), "valid" (settings that     *)
(* parse and have the expected shape), "invalid" (json.loads raises        *)
(* JSONDecodeError) or "raises" (any other exception: settings that are no *)
(* string, or JSON that is no object).                                     *)
(***************************************************************************)
StepKinds == {"plain", "valid", "invalid", "raises"}

RECURSIVE SeqsUpTo(_, _)
SeqsUpTo(S, n) ==
    IF n = 0 THEN {<<>>}
    ELSE SeqsUpTo(S, n - 1) \cup
         {Append(q, x) : q \in {r \in SeqsUpTo(S, n - 1) : Len(r) = n - 1}, x \in S}

Workflows ==
    {[yaml |-> y, steps |-> <<>>] : y \in {"unreadable", "error", "null"}}
    \cup {[yaml |-> "mapping", steps |-> q] : q \in SeqsUpTo(StepKinds, MaxSteps)}

Outcome(ok, report) == [ok |-> ok, report |-> report]

RECURSIVE CheckSteps(_, _, _)
\* the loops over jobs and steps, from step k on
CheckSteps(steps, k, settings_found) ==
    IF k > Len(steps)
    THEN Outcome(TRUE, IF settings_found THEN "valid" ELSE "no settings")
    ELSE CASE steps[k] = "plain"   -> CheckSteps(steps, k + 1, settings_found)
           [] steps[k] = "valid"   -> CheckSteps(steps, k + 1, TRUE)
           [] steps[k] = "invalid" -> Outcome(FALSE, "JSON Error")
           [] OTHER                -> Outcome(FALSE, "Unexpected error")

\* validate_workflow(workflow_path)
ValidateWorkflow(workflow) ==
    CASE workflow.yaml = "error"   -> Outcome(FALSE, "YAML parsing error")
      [] workflow.yaml = "mapping" -> CheckSteps(workflow.steps, 1, FALSE)
      [] OTHER                     -> Outcome(FALSE, "Unexpected error")

InitValid ==
    /\ wfs \in {[k \in 1 .. n |-> k] : n \in 0 .. MaxFiles}
    /\ vpc = "glob"
    /\ idx = 0
    /\ all_valid = TRUE
    /\ visited = <<>>
    /\ status = -1
    /\ NoImageJob
    /\ NoProg

\* workflow_files = sorted(...); if not workflow_files: return 1
Discover ==
    /\ vpc = "glob"
    /\ IF wfs = <<>>
       THEN /\ status' = 1
            /\ vpc' = "returned"
            /\ UNCHANGED idx
       ELSE /\ idx' = 1
            /\ vpc' = "loop"
            /\ UNCHANGED status
    /\ UNCHANGED <<wfs, all_valid, visited>>
    /\ UNCHANGED <<imageVars, progVars>>

VisitFileStopping ==
    /\ vpc = "loop"
    /\ idx <= Len(wfs)
    /\ \E workflow \in Workflows :
          LET outcome == ValidateWorkflow(workflow)
          IN /\ visited' = Append(visited, [file |-> wfs[idx], outcome |-> outcome])
             /\ all_valid' = IF ~outcome.ok THEN FALSE ELSE all_valid
             /\ idx' = IF outcome.ok THEN idx + 1 ELSE Len(wfs) + 1
    /\ UNCHANGED <<wfs, vpc, status>>
    /\ UNCHANGED <<imageVars, progVars>>

\* one iteration of the loop: if not validate_workflow(wf_file): all_valid = False
VisitFile ==
    /\ vpc = "loop"
    /\ idx <= Len(wfs)
    /\ \E workflow \in Workflows :
          LET outcome == ValidateWorkflow(workflow)
          IN /\ visited' = Append(visited, [file |-> wfs[idx], outcome |-> outcome])
             /\ all_valid' = IF ~outcome.ok THEN FALSE ELSE all_valid
    /\ idx' = idx + 1
    /\ UNCHANGED <<wfs, vpc, status>>
    /\ UNCHANGED <<imageVars, progVars>>

\* after the loop: return 0 if all_valid else 1
Report ==
    /\ vpc = "loop"
    /\ idx > Len(wfs)
    /\ status' = IF all_valid THEN 0 ELSE 1
    /\ vpc' = "returned"
    /\ UNCHANGED <<wfs, idx, all_valid, visited>>
    /\ UNCHANGED <<imageVars, progVars>>

NextValid == Discover \/ VisitFile \/ Report

SpecValid == InitValid /\ [][NextValid]_vars

(***************************************************************************)
(* Properties of the main programs (checked under Spec and FairSpec).      *)
(***************************************************************************)
Saved(dir, name) == \E k \in 1 .. Len(written) : written[k].dir = dir /\ written[k].name = name

LowerDirs == Dirs \ {XxxhdpiDir}

\* the fan-out saved exactly the four resized copies of the xxxhdpi file
FannedOut(name) ==
    LET IsCopy(e) == e.name = name /\ e.file.origin = "resize"
        copies == SelectSeq(written, IsCopy)
        source == files[<<XxxhdpiDir, name>>]
    IN /\ Len(copies) = 4
       /\ \A d \in 1 .. 4 :
             /\ copies[d].dir = Mipmap(Densities[d])
             /\ copies[d].file = [w |-> DensitySize(Densities[d]),
                                  h |-> DensitySize(Densities[d]),
                                  origin |-> "resize", of |-> Of(source)]
             /\ files[<<copies[d].dir, name>>] = copies[d].file
       /\ {copies[d].file.w : d \in 1 .. 4} = {108, 162, 216, 324}

\* the fan-out saved nothing under this name
NotFannedOut(name) ==
    /\ \A k \in 1 .. Len(written) : written[k].name = name => written[k].dir = XxxhdpiDir
    /\ \A dir \in LowerDirs : files[<<dir, name>>] = before[<<dir, name>>]

\* C3: for each asset that exists in the xxxhdpi directory the fan-out (of
\* either program) saves exactly four files, in mipmap-mdpi, -hdpi, -xhdpi
\* and -xxhdpi, of sides 108, 162, 216 and 324 whatever the size of the
\* source, each a single resize of that xxxhdpi file; it saves nothing in
\* the xxxhdpi directory, and nothing for an asset whose source is absent.
T_C3_FanOut ==
    /\ \A i \in 1 .. Len(IconFiles) :
          (pc \in {"fanout", "done"} /\ fi > i) =>
              IF Exists(files, XxxhdpiDir, IconFiles[i])
              THEN FannedOut(IconFiles[i])
              ELSE NotFannedOut(IconFiles[i])
    /\ \A k \in 1 .. Len(written) :
          written[k].dir = XxxhdpiDir => written[k].file.origin # "resize"
    /\ pc = "fanout" => \A name \in Names :
          files[<<XxxhdpiDir, name>>] = IF Saved(XxxhdpiDir, name)
                                        THEN File(432, 432, files[<<XxxhdpiDir, name>>].origin)
                                        ELSE before[<<XxxhdpiDir, name>>]

\* a run that ended with a non-square file of an earlier run fanned out
W_C3_NonSquareSourceFannedOut ==
    /\ pc = "done"
    /\ files[<<XxxhdpiDir, Foreground>>].origin = "stale"
    /\ files[<<XxxhdpiDir, Foreground>>].w # files[<<XxxhdpiDir, Foreground>>].h
    /\ files[<<Mipmap("mdpi"), Foreground>>].w = 108
    /\ ~Exists(files, XxxhdpiDir, Monochrome)

NoForeground ==
    /\ prog = "process_icons"
    /\ "foreground.png" \notin present
    /\ {"background.png", "mono.png"} \subseteq present

InWarns(w) == \E k \in 1 .. Len(warns) : warns[k] = w

\* C1 as stated: in a run without foreground.png no ic_launcher_foreground.png
\* is saved in any mipmap directory.
CE_C1_NoForegroundFileSaved ==
    NoForeground => \A k \in 1 .. Len(written) : written[k].name # Foreground

ForegroundSkipped ==
    NoForeground =>
        /\ pc # "crashed"
        /\ pc # "foreground" => InWarns("[WARN] foreground.png not found!")
        /\ ~Saved(XxxhdpiDir, Foreground)
        /\ files[<<XxxhdpiDir, Foreground>>] = before[<<XxxhdpiDir, Foreground>>]
        /\ pc = "done" =>
              /\ Saved(XxxhdpiDir, Background)
              /\ files[<<XxxhdpiDir, Background>>] = File(432, 432, "process_background")
              /\ Saved(XxxhdpiDir, Monochrome)
              /\ files[<<XxxhdpiDir, Monochrome>>] = File(432, 432, "make_square_and_resize")
              /\ fi = Len(IconFiles) + 1
              /\ FannedOut(Background)
              /\ FannedOut(Monochrome)
              /\ IF Exists(before, XxxhdpiDir, Foreground)
                 THEN FannedOut(Foreground)
                 ELSE \A k \in 1 .. Len(written) : written[k].name # Foreground

\* C1 amended: in a run of process_icons main without foreground.png (and
\* with background.png and mono.png) the warning is printed and no
\* ic_launcher_foreground.png is saved in mipmap-xxxhdpi; the fan-out saves
\* ic_launcher_foreground.png in the four lower densities exactly when
\* mipmap-xxxhdpi already held one before the run, and then it resizes
\* that older file; the background stage, the monochrome stage and the
\* fan-out all execute, and the run reaches its final "Done" step.
T_C1_MissingForeground ==
    /\ []ForegroundSkipped
    /\ (NoForeground /\ pc = "foreground") ~> (pc = "done")

\* a finished run without foreground.png in a tree that held no foreground
W_C1_DoneWithoutForeground ==
    /\ NoForeground
    /\ pc = "done"
    /\ ~Exists(before, XxxhdpiDir, Foreground)
    /\ \A dir \in Dirs : ~Exists(files, dir, Foreground)
    /\ Len(written) = 10

OneSheetMissing == prog = "split_icons" /\ Cardinality(present) = 1

\* C9: a run of the sheet splitter with one sheet missing prints a warning,
\* skips only the stage of that sheet, runs the other extraction and the
\* fan-out, and completes.
CE_C9_MissingSheetSkipped ==
    OneSheetMissing =>
        /\ pc # "crashed"
        /\ pc = "done" =>
              /\ warns # <<>>
              /\ fi = Len(IconFiles) + 1
              /\ WhiteSheet \in present => Saved(XxxhdpiDir, Background)
              /\ TransparentSheet \in present =>
                    (content[0] => Saved(XxxhdpiDir, Foreground))

(***************************************************************************)
(* Properties of the validator (checked under SpecValid).                  *)
(***************************************************************************)
\* C10: main hands every discovered file to validate_workflow exactly once,
\* in order, whatever the earlier files gave (a YAML error, a JSON error or
\* any other exception is that file's failure), and returns only after the
\* last one: 0 exactly when there is at least one file and all of them
\* validated, 1 when one failed or none was found.
T_C10_AllFilesVisited ==
    /\ vpc = "loop" =>
          /\ [k \in 1 .. Len(visited) |-> visited[k].file] = SubSeq(wfs, 1, idx - 1)
          /\ status = -1
    /\ vpc = "glob" => status = -1 /\ visited = <<>>
    /\ vpc = "returned" =>
          /\ [k \in 1 .. Len(visited) |-> visited[k].file] = wfs
          /\ status \in {0, 1}
          /\ status = 0 <=>
                (wfs # <<>> /\ \A k \in 1 .. Len(visited) : visited[k].outcome.ok)
          /\ status = 1 <=>
                (wfs = <<>> \/ \E k \in 1 .. Len(visited) : ~visited[k].outcome.ok)

\* three files, the first with a JSON error, the second with a YAML error,
\* the third visited all the same and valid; main returned 1
W_C10_VisitedAfterFailures ==
    /\ vpc = "returned"
    /\ Len(visited) = 3
    /\ visited[1].outcome = Outcome(FALSE, "JSON Error")
    /\ visited[2].outcome = Outcome(FALSE, "YAML parsing error")
    /\ visited[3].outcome = Outcome(TRUE, "valid")
    /\ status = 1

(***************************************************************************)
(* Properties of the image functions (checked under SpecImage).            *)
(***************************************************************************)
Normalized == job = "normalize" /\ pass >= 1
SplitDone(transparent) == job = "split" /\ pass = 1 /\ isTransparent = transparent

\* C2: whatever the source image and the target size S, the saved image is
\* S x S, and no step before it gives an empty or non-square image: the
\* center crop is a non-empty square, the trim leaves at least one pixel,
\* the canvas is a non-empty square and the paste lies inside it.
T_C2_OutputIsSquareOfTargetSize ==
    Normalized =>
        /\ res.final.w = fsize /\ res.final.h = fsize
        /\ DOMAIN res.final.px = Coords(fsize, fsize)
        /\ res.square.w = res.square.h /\ res.square.w >= 1
        /\ res.w >= 1 /\ res.h >= 1
        /\ res.canvas_size >= 1
        /\ res.canvas = [w |-> res.canvas_size, h |-> res.canvas_size]
        /\ res.paste_x >= 0 /\ res.paste_x + res.w <= res.canvas_size
        /\ res.paste_y >= 0 /\ res.paste_y + res.h <= res.canvas_size

\* a non-square, fully transparent source normalized to a larger size
W_C2_TransparentNonSquare ==
    /\ job = "normalize" /\ pass = 1
    /\ src.w # src.h /\ src.mode = "RGBA" /\ res.bbox = NoBox
    /\ fsize > res.canvas_size

\* the content of the first saved image, as the second run should find it
FirstContentBox ==
    Box(res1.paste_x, res1.paste_y, res1.paste_x + res1.w, res1.paste_y + res1.h)

BinaryAlpha(img) == \A p \in DOMAIN img.px : img.px[p].a # "faint"

\* C4 as stated: a second run on the output of the first gives the same
\* image.
CE_C4_Idempotent ==
    (job = "normalize" /\ pass = 2) => res.final = res1.final

\* C4 amended: when the source has only fully transparent and fully opaque
\* pixels, at least one of them opaque, and the first run's canvas side was
\* already S (so its resize changed nothing), the second run recomputes a
\* canvas of side S, finds the content box where the first run pasted it,
\* pastes it at the same place and saves the same image.
T_C4_IdempotentWhenUnscaled ==
    (/\ job = "normalize" /\ pass = 2
     /\ BinaryAlpha(src)
     /\ res1.bbox # NoBox
     /\ res1.canvas_size = fsize) =>
        /\ res.canvas_size = fsize
        /\ res.bbox = FirstContentBox
        /\ res.w = res1.w /\ res.h = res1.h
        /\ res.paste_x = res1.paste_x /\ res.paste_y = res1.paste_y
        /\ res.final = res1.final

\* a 1 x 2 content centered in a 3 x 3 canvas, normalized twice with S = 3
W_C4_SecondPassUnscaled ==
    /\ job = "normalize" /\ pass = 2
    /\ BinaryAlpha(src)
    /\ res1.bbox # NoBox
    /\ res1.canvas_size = fsize
    /\ res1.paste_x > 0
    /\ res1.w # res1.h

\* c is m / 0.65 truncated, and rounded up
Truncated(c, m) == SafeNum * c <= SafeDen * m /\ SafeDen * m < SafeNum * (c + 1)
RoundedUp(c, m) == SafeNum * (c - 1) < SafeDen * m /\ SafeDen * m <= SafeNum * c

CanvasSides(P(_, _)) ==
    /\ Normalized => P(res.canvas_size, Max(res.w, res.h))
    /\ SplitDone(TRUE) =>
          /\ sres.fg.saved => P(sres.fg.final_size, Max(sres.fg.w, sres.fg.h))
          /\ sres.mono.saved => P(sres.mono.final_size, Max(sres.mono.w, sres.mono.h))

\* C5 as stated: the canvas side is max(w, h) / 0.65 rounded up, so the
\* content never exceeds 65% of the canvas side.
CE_C5_CanvasRoundedUp == CanvasSides(RoundedUp)

\* C5 amended: in the normalizer and in the sheet splitter the canvas side
\* is max(w, h) / 0.65 truncated to an integer (floor(100 * max(w, h) / 65)),
\* so the larger content dimension is at least 65% of the canvas side and
\* less than 65% of the canvas side plus one.
T_C5_CanvasTruncated == CanvasSides(Truncated)

\* the splitter pads a content of 2 pixels into a canvas of 3, not of 4
W_C5_SheetCanvasOfThree ==
    /\ SplitDone(TRUE)
    /\ sres.fg.saved
    /\ Max(sres.fg.w, sres.fg.h) = 2
    /\ sres.fg.final_size = 3

\* C6: column i (0 and 2) is cropped to (i*c, 0, (i+1)*c, floor(0.65*H))
\* with c = floor(W/3) before any trim: it is c wide and floor(0.65*H)
\* high, lies inside the sheet, and the two columns do not overlap; a
\* 300 x 200 sheet gives 100 x 130 columns.
T_C6_ColumnCrop ==
    /\ SplitDone(TRUE) =>
        LET c  == sres.col_width
            ch == sres.crop_height
        IN /\ Columns * c <= sheet.w /\ sheet.w < Columns * (c + 1)
           /\ TopDen * ch <= TopNum * sheet.h /\ TopNum * sheet.h < TopDen * (ch + 1)
           /\ sres.fg.rect = Box(0, 0, c, ch)
           /\ sres.mono.rect = Box(2 * c, 0, 3 * c, ch)
           /\ sres.fg.col = [w |-> c, h |-> ch]
           /\ sres.mono.col = [w |-> c, h |-> ch]
           /\ sres.mono.rect.r <= sheet.w /\ ch <= sheet.h
           /\ sres.fg.rect.r <= sres.mono.rect.l
    /\ ColumnRect(0, ColWidth(300), CropHeight(200)) = Box(0, 0, 100, 130)
    /\ ColumnRect(2, ColWidth(300), CropHeight(200)) = Box(200, 0, 300, 130)

\* a sheet whose columns are 2 x 2 and whose first column has content
W_C6_TwoByTwoColumns ==
    /\ SplitDone(TRUE)
    /\ sres.col_width = 2 /\ sres.crop_height = 2
    /\ sres.fg.saved

InColumnOne(x, y) ==
    /\ sres.col_width <= x /\ x < 2 * sres.col_width
    /\ 0 <= y /\ y < sres.crop_height

\* C7 as stated: the sampled point lies inside column 1's cropped region.
CE_C7_SampleInsideColumnOne ==
    SplitDone(FALSE) => InColumnOne(sres.bg.x, sres.bg.y)

\* C7 amended: the background colour is the pixel of the sheet at
\* x = floor(1.5 * colWidth), y = cropHeight div 2; that point is always a
\* pixel of the sheet, and it lies inside column 1's cropped region exactly
\* when the sheet is at least 3 wide and 2 high (otherwise that region is
\* empty); the saved background is 432 x 432, RGB, filled with the RGB
\* components of that pixel.
T_C7_BackgroundSample ==
    SplitDone(FALSE) =>
        LET c  == sres.col_width
            ch == sres.crop_height
            x  == sres.bg.x
            y  == sres.bg.y
        IN /\ Columns * c <= sheet.w /\ sheet.w < Columns * (c + 1)
           /\ TopDen * ch <= TopNum * sheet.h /\ TopNum * sheet.h < TopDen * (ch + 1)
           /\ 2 * x <= 3 * c /\ 3 * c < 2 * x + 2
           /\ 2 * y <= ch /\ ch < 2 * y + 2
           /\ 0 <= x /\ x < sheet.w /\ 0 <= y /\ y < sheet.h
           /\ InColumnOne(x, y) <=> (sheet.w >= 3 /\ sheet.h >= 2)
           /\ sres.bg.out.w = 432 /\ sres.bg.out.h = 432
           /\ sres.bg.out.mode = "RGB"
           /\ Len(sres.bg.out.fill) = 3
           /\ sres.bg.out.fill = RGBTuple(sheet.px[<<x, y>>].rgb)

\* an RGBA sheet with white paper, wide and high enough, sampled as white
W_C7_WhiteSampled ==
    /\ SplitDone(FALSE)
    /\ sheet.mode = "RGBA" /\ sheet.w >= 3 /\ sheet.h >= 2
    /\ Len(sres.bg.bg_color) = 4
    /\ sres.bg.out.fill = <<255, 255, 255>>

Width(rect) == rect.r - rect.l

\* C8 as stated: when 3 does not divide W the final column is narrower.
CE_C8_LastColumnNarrower ==
    (SplitDone(TRUE) /\ sheet.w % Columns # 0) =>
        Width(sres.mono.rect) < Width(sres.fg.rect)

\* C8 amended: when 3 does not divide W, columns 0 and 2 are both cropped
\* floor(W/3) wide; the last column ends at 3 * floor(W/3), and the W mod 3
\* rightmost pixel columns of the sheet belong to no column.
T_C8_RemainderDropped ==
    (SplitDone(TRUE) /\ sheet.w % Columns # 0) =>
        /\ Width(sres.fg.rect) = sres.col_width
        /\ Width(sres.mono.rect) = sres.col_width
        /\ sres.mono.rect.r = sheet.w - (sheet.w % Columns)
        /\ sres.mono.rect.r < sheet.w

\* a sheet 5 wide: columns of 1, the last two pixel columns in no column
W_C8_WidthFive ==
    /\ SplitDone(TRUE)
    /\ sheet.w = 5
    /\ sres.mono.rect = Box(2, 0, 3, sres.crop_height)

====
